---- MODULE Spec2Model ----
(***************************************************************************)
(* Model of the research pipeline of UI_main.py: run_research, the five    *)
(* stage functions (planner, researcher, analyst, critic, synthesizer),    *)
(* route_after_validation and the graph that build_research_agent wires.   *)
(*                                                                         *)
(* Text that the code inspects (the query, the credential, the Planner's   *)
(* response, the Critic's verdict) is a sequence of one-character strings, *)
(* so that strip, upper, startswith, split, the substring test and the     *)
(* JSON parse are computed character by character.  Text that the code     *)
(* only passes along (answers, analysis, report) is an opaque string.      *)
(***************************************************************************)
EXTENDS Integers, Sequences, FiniteSets, TLC

\* ------------------------------------------------------------------ text

\* The characters str.strip() removes that occur in the model's inputs.
Whitespace == {" ", "\n"}

Lowercase ==
    <<"a", "b", "c", "d", "e", "f", "g", "h", "i", "j", "k", "l", "m",
      "n", "o", "p", "q", "r", "s", "t", "u", "v", "w", "x", "y", "z">>

Uppercase ==
    <<"A", "B", "C", "D", "E", "F", "G", "H", "I", "J", "K", "L", "M",
      "N", "O", "P", "Q", "R", "S", "T", "U", "V", "W", "X", "Y", "Z">>

Digits == {"0", "1", "2", "3", "4", "5", "6", "7", "8", "9"}

\* The backquote character (a TLA+ string cannot hold it, so it is named).
Backquote == "BACKQUOTE"

\* the code-fence marker, three backquotes
Fence == <<Backquote, Backquote, Backquote>>

Drop(s, n) == SubSeq(s, n + 1, Len(s))

RECURSIVE LStrip(_)
LStrip(s) ==
    IF s # <<>> /\ Head(s) \in Whitespace THEN LStrip(Tail(s)) ELSE s

RECURSIVE RStrip(_)
RStrip(s) ==
    IF s # <<>> /\ s[Len(s)] \in Whitespace
    THEN RStrip(SubSeq(s, 1, Len(s) - 1))
    ELSE s

\* str.strip()
Strip(s) == RStrip(LStrip(s))

UpperChar(c) ==
    IF \E i \in 1..26 : Lowercase[i] = c
    THEN Uppercase[CHOOSE i \in 1..26 : Lowercase[i] = c]
    ELSE c

\* str.upper()
Upper(s) == [i \in 1..Len(s) |-> UpperChar(s[i])]

\* str.startswith(p)
StartsWith(s, p) == Len(s) >= Len(p) /\ SubSeq(s, 1, Len(p)) = p

\* the positions at which sub occurs in s
Occurrences(sub, s) ==
    {i \in 1..(Len(s) - Len(sub) + 1) : SubSeq(s, i, i + Len(sub) - 1) = sub}

\* sub in s
Contains(sub, s) == Occurrences(sub, s) # {}

\* s.split(sep)[1] for an s that holds sep at least once: the text between
\* the first occurrence of sep and the next one (or the end of s).
SplitSecond(s, sep) ==
    LET first == CHOOSE i \in Occurrences(sep, s) :
                     \A j \in Occurrences(sep, s) : i <= j
        rest  == Drop(s, first + Len(sep) - 1)
    IN  IF Occurrences(sep, rest) = {}
        THEN rest
        ELSE LET nxt == CHOOSE i \in Occurrences(sep, rest) :
                            \A j \in Occurrences(sep, rest) : i <= j
             IN  SubSeq(rest, 1, nxt - 1)

\* ------------------------------------------------------------------ JSON
\* Python values that json.loads yields on the model's inputs: a str, an
\* int, None or a list of values.  Every value is a record [t, v].

PyStr(chars) == [t |-> "str", v |-> chars]
PyInt(digits) == [t |-> "int", v |-> digits]
PyNone == [t |-> "None", v |-> <<>>]
PyList(items) == [t |-> "list", v |-> items]

ParseFail == [ok |-> FALSE, val |-> PyNone, rest |-> <<>>]

Quote == "\""

\* the length of the longest prefix of s made of characters of set
RECURSIVE Span(_, _)
Span(s, set) ==
    IF s # <<>> /\ Head(s) \in set THEN 1 + Span(Tail(s), set) ELSE 0

\* the length of the longest prefix of s holding no character of set
RECURSIVE SpanNot(_, _)
SpanNot(s, set) ==
    IF s # <<>> /\ Head(s) \notin set THEN 1 + SpanNot(Tail(s), set) ELSE 0

\* JSON's own whitespace skipping, between tokens
SkipWs(s) == Drop(s, Span(s, Whitespace))

\* One JSON value at the head of s: [ok, val, rest].  ParseItems reads the
\* rest of an array after its "[" or after a ",".
RECURSIVE ParseValue(_)
RECURSIVE ParseItems(_, _)
ParseValue(s) ==
    IF s = <<>> THEN ParseFail
    ELSE IF Head(s) = Quote THEN
        LET n == SpanNot(Tail(s), {Quote})
        IN  IF n = Len(s) - 1 THEN ParseFail
            ELSE [ok |-> TRUE, val |-> PyStr(SubSeq(s, 2, n + 1)),
                  rest |-> Drop(s, n + 2)]
    ELSE IF Head(s) \in Digits THEN
        LET n == IF Head(s) = "0" THEN 1 ELSE Span(s, Digits)
        IN  [ok |-> TRUE, val |-> PyInt(SubSeq(s, 1, n)), rest |-> Drop(s, n)]
    ELSE IF StartsWith(s, <<"n", "u", "l", "l">>) THEN
        [ok |-> TRUE, val |-> PyNone, rest |-> Drop(s, 4)]
    ELSE IF Head(s) = "[" THEN
        LET body == SkipWs(Tail(s))
        IN  IF body # <<>> /\ Head(body) = "]"
            THEN [ok |-> TRUE, val |-> PyList(<<>>), rest |-> Tail(body)]
            ELSE ParseItems(body, <<>>)
    ELSE ParseFail

ParseItems(s, acc) ==
    LET item == ParseValue(s)
        after == SkipWs(item.rest)
    IN  IF ~item.ok \/ after = <<>> THEN ParseFail
        ELSE IF Head(after) = "]"
             THEN [ok |-> TRUE, val |-> PyList(Append(acc, item.val)),
                   rest |-> Tail(after)]
        ELSE IF Head(after) = ","
             THEN ParseItems(SkipWs(Tail(after)), Append(acc, item.val))
        ELSE ParseFail

\* json.loads(s): [ok, val]; ok is FALSE where json.loads raises.
JsonLoads(s) ==
    LET r == ParseValue(SkipWs(s))
    IN  IF r.ok /\ SkipWs(r.rest) = <<>>
        THEN [ok |-> TRUE, val |-> r.val]
        ELSE [ok |-> FALSE, val |-> PyNone]

\* len(x) is defined for str and list; it raises TypeError otherwise.
HasLen(x) == x.t \in {"str", "list"}

\* the elements a for loop over x visits, in order
Elements(x) ==
    IF x.t = "str" THEN [i \in 1..Len(x.v) |-> PyStr(<<x.v[i]>>)] ELSE x.v

\* whether x can be a dict key (a list is unhashable)
Hashable(x) == x.t # "list"

\* ---------------------------------------------------------------- inputs

\* How many times run_research is called in one behaviour.
MaxRuns == 2

\* The number of graph steps after which the compiled graph's invoke gives
\* up with a recursion error (invoke is called with its default config).
RecursionLimit == 25

Queries == {<<>>, <<" ", "\n">>, <<"e", "v">>, <<" ", "e", "v">>}

ApiKeys == {<<>>, <<" ">>, <<"g", "1">>, <<"g", "2">>}

\* What the model may answer to the Planner's prompt.
PlannerResponses ==
    { <<>>,
      <<"S", "u", "r", "e">>,
      <<"[", Quote, "a", Quote, "]">>,
      <<" ", "[", Quote, "a", Quote, ",", " ", Quote, "b", Quote,
        "]", " ", "\n">>,
      <<"[", Quote, "a", Quote, ",", Quote, "a", Quote, "]">>,
      <<Backquote, Backquote, Backquote, "j", "s", "o", "n", "\n",
        "[", Quote, "a", Quote, "]", "\n", Backquote, Backquote,
        Backquote>>,
      <<Backquote, Backquote, Backquote, "\n", "[", Quote, "b",
        Quote, "]", Backquote, Backquote, Backquote>>,
      <<"[", "]">>,
      <<"7">>,
      <<"n", "u", "l", "l">>,
      <<Quote, "a", "b", Quote>>,
      <<"[", "[", Quote, "a", Quote, "]", "]">>,
      <<"[", Quote, "a", Quote>>,
      <<"H", "e", "r", "e", ":", " ", "[", Quote, "a", Quote, "]">>,
      <<Backquote, Backquote, Backquote, "j", "s", "o", "n", " ",
        "o", "o", "p", "s", Backquote, Backquote, Backquote>> }

\* What the model may answer to the Critic's prompt.
Verdicts ==
    { <<"V", "A", "L", "I", "D">>,
      <<"I", "N", "V", "A", "L", "I", "D">>,
      <<"v", "a", "l", "i", "d">>,
      <<" ", "I", "n", "v", "a", "l", "i", "d", "\n">>,
      <<"N", "e", "e", "d", "s", " ", "w", "o", "r", "k">>,
      <<>>,
      <<"T", "h", "e", " ", "r", "e", "s", "u", "l", "t", " ", "i",
        "s", " ", "V", "A", "L", "I", "D", ".">> }

\* What the model may answer to the other prompts (never inspected).
Answers == {"answer1", "answer2"}
Analyses == {"analysis1", "analysis2"}
Reports == {"report1"}

\* ------------------------------------------------------------- the state

VARIABLES
    llm,            \* the global model client: [set, api_key]
    nruns,          \* calls of run_research so far
    pc,             \* where the current call of run_research is
    query,          \* run_research's argument query
    api_key,        \* run_research's argument api_key
    app,            \* whether build_research_agent has compiled the graph
    state,          \* the ResearchState of the run: field name -> value
    response,       \* planner_agent's local response (the model's text)
    research_data,  \* research_agent's local dict, as <<[k, v], ...>>
    i,              \* research_agent's loop position in sub_questions
    verdict,        \* critic_agent's local verdict (the model's text)
    result,         \* what run_research returned: [report, logs]
    step,           \* graph steps taken by the current invoke
    trace,          \* the stages executed by the current run, in order
    verdicts,       \* validation_passed as each Critic execution set it
    judged,         \* the analysis the latest Critic execution was given
    calls           \* the model calls of the current run, in order

vars == <<llm, nruns, pc, query, api_key, app, state, response,
          research_data, i, verdict, result, step, trace, verdicts,
          judged, calls>>

Stages == {"planner", "researcher", "analyst", "critic", "synthesizer"}

\* ------------------------------------------------------- Python dicts

EmptyDict == <<>>

DictKeys(d) == {d[n].k : n \in 1..Len(d)}

\* a store that keeps the first value of a key (setdefault)
DictSetKeepsFirst(d, key, value) ==
    IF key \in DictKeys(d) THEN d ELSE Append(d, [k |-> key, v |-> value])

\* a store that rebinds the dict instead of adding to it
DictSetRebinds(d, key, value) == <<[k |-> key, v |-> value]>>

\* d[key] = value: an existing key keeps its place, a new one goes last
DictSet(d, key, value) ==
    IF key \in DictKeys(d)
    THEN [n \in 1..Len(d) |->
             IF d[n].k = key THEN [k |-> key, v |-> value] ELSE d[n]]
    ELSE Append(d, [k |-> key, v |-> value])

\* the graph's merge of a stage's partial update into the state
Merge(s, upd) ==
    [f \in DOMAIN s \cup DOMAIN upd |->
        IF f \in DOMAIN upd THEN upd[f] ELSE s[f]]

NoState == [f \in {} |-> 0]

\* ------------------------------------------------------ initialize_llm

LlmNone == [set |-> FALSE, api_key |-> <<>>]

ChatGroq(key) == [set |-> TRUE, api_key |-> key]

\* -------------------------------------------------------- planner_agent

FallbackPrefix ==
    <<"W", "h", "a", "t", " ", "a", "r", "e", " ", "t", "h", "e",
      " ", "k", "e", "y", " ", "a", "s", "p", "e", "c", "t", "s",
      " ", "o", "f", " ">>

Fallback2 ==
    <<"W", "h", "a", "t", " ", "a", "r", "e", " ", "t", "h", "e",
      " ", "m", "a", "i", "n", " ", "d", "i", "f", "f", "e", "r",
      "e", "n", "c", "e", "s", " ", "o", "r", " ", "c", "o", "m",
      "p", "a", "r", "i", "s", "o", "n", "s", "?">>

Fallback3 ==
    <<"W", "h", "a", "t", " ", "a", "r", "e", " ", "c", "u", "r",
      "r", "e", "n", "t", " ", "t", "r", "e", "n", "d", "s", " ",
      "a", "n", "d", " ", "a", "d", "o", "p", "t", "i", "o", "n",
      " ", "p", "a", "t", "t", "e", "r", "n", "s", "?">>

Fallback4 ==
    <<"W", "h", "a", "t", " ", "a", "r", "e", " ", "t", "h", "e",
      " ", "p", "r", "o", "s", " ", "a", "n", "d", " ", "c", "o",
      "n", "s", "?">>

Fallback5 ==
    <<"W", "h", "a", "t", " ", "i", "s", " ", "t", "h", "e", " ",
      "r", "e", "c", "o", "m", "m", "e", "n", "d", "a", "t", "i",
      "o", "n", "?">>

\* the except branch's list
Fallback(q) ==
    PyList(<<PyStr(FallbackPrefix \o q \o <<"?">>), PyStr(Fallback2),
             PyStr(Fallback3), PyStr(Fallback4), PyStr(Fallback5)>>)

\* the text handed to json.loads: the response stripped, and when it opens
\* with a code fence, what lies between the first two fences less a
\* leading "json"
FencedPayload(resp) ==
    LET r == Strip(resp)
    IN  IF StartsWith(r, Fence)
        THEN LET inner == SplitSecond(r, Fence)
             IN  IF StartsWith(inner, <<"j", "s", "o", "n">>)
                 THEN Drop(inner, 4)
                 ELSE inner
        ELSE r

\* the try/except of planner_agent: sub_questions from the response
ParseSubQuestions(resp, q) ==
    LET parsed == JsonLoads(Strip(FencedPayload(resp)))
    IN  IF parsed.ok THEN parsed.val ELSE Fallback(q)

\* ---------------------------------------------------------- critic_agent

\* ------------------------------- what each stage function returns
\* The partial update a stage hands back to the graph; s is the state the
\* stage was given.

\* line 123
planner_return(sub_questions) ==
    [sub_questions |-> sub_questions, iteration_count |-> 0]

\* line 161
research_return(data) == [research_data |-> data]

\* an Analyst that also resets the verdict
analysis_return_resets_verdict(s, analysis) ==
    [analysis |-> analysis, validation_passed |-> FALSE]

\* line 204
analysis_return(s, analysis) == [analysis |-> analysis]

\* a Critic that counts its failed validations in iteration_count
critic_return_counts(s, is_valid) ==
    [validation_passed |-> is_valid,
     iteration_count |-> IF is_valid THEN s["iteration_count"]
                         ELSE s["iteration_count"] + 1]

\* a Critic that stores the opposite of the verdict it computed
critic_return_negates(s, is_valid) == [validation_passed |-> ~is_valid]

\* line 245
critic_return(s, is_valid) == [validation_passed |-> is_valid]

\* line 284
synthesis_return(final_report) == [final_report |-> final_report]

\* the test without upper(): a case-sensitive match
IsValidCaseSensitive(v) == Contains(<<"V", "A", "L", "I", "D">>, Strip(v))

\* line 241: "VALID" in verdict.strip().upper()
IsValid(v) == Contains(<<"V", "A", "L", "I", "D">>, Upper(Strip(v)))

\* ------------------------------------------------- route_after_validation

\* route_after_validation with the cap compared by <= instead of <
route_cap_off_by_one(s) ==
    IF s["validation_passed"] THEN "synthesizer"
    ELSE IF s["iteration_count"] <= 2 THEN "analyst"
    ELSE "synthesizer"

\* route_after_validation without its first branch
route_ignores_verdict(s) ==
    IF s["iteration_count"] < 2 THEN "analyst" ELSE "synthesizer"

route_after_validation(s) ==
    IF s["validation_passed"] THEN "synthesizer"
    ELSE IF s["iteration_count"] < 2 THEN "analyst"
    ELSE "synthesizer"

\* --------------------------------------------------- build_research_agent

EntryPoint == "planner"

\* the edges with researcher wired to critic, past analyst
StaticEdgeSkipsAnalyst(node) ==
    CASE node = "planner" -> "researcher"
      [] node = "researcher" -> "critic"
      [] node = "analyst" -> "critic"
      [] node = "synthesizer" -> "END"

\* the edges with analyst wired to synthesizer instead of critic
StaticEdgeSkipsCritic(node) ==
    CASE node = "planner" -> "researcher"
      [] node = "researcher" -> "analyst"
      [] node = "analyst" -> "synthesizer"
      [] node = "synthesizer" -> "END"

\* graph.add_edge(a, b), and add_edge("synthesizer", END)
StaticEdge(node) ==
    CASE node = "planner" -> "researcher"
      [] node = "researcher" -> "analyst"
      [] node = "analyst" -> "critic"
      [] node = "synthesizer" -> "END"

\* the mapping handed to add_conditional_edges
ConditionalEdge(label) ==
    CASE label = "analyst" -> "analyst"
      [] label = "synthesizer" -> "synthesizer"

\* the state fields each stage function subscripts
Reads(node) ==
    CASE node = "planner" -> {"query"}
      [] node = "researcher" -> {"sub_questions", "query"}
      [] node = "analyst" -> {"research_data", "query"}
      [] node = "critic" -> {"query", "analysis"}
      [] node = "synthesizer" -> {"query", "analysis"}

\* ------------------------------------------------------------ run_research

\* the emptiness test without strip()
IsBlankNoStrip(s) == s = <<>>

\* "not s.strip()"
IsBlank(s) == Strip(s) = <<>>

Message(kind, body) == [kind |-> kind, body |-> body]

NoResult == [report |-> Message("none", ""), logs |-> Message("none", "")]

\* lines 348-355: the two early returns
AskForQuery ==
    [report |-> Message("warning", "Please enter a research question."),
     logs |-> Message("empty", "")]

AskForKey ==
    [report |-> Message("warning", "Please enter your Groq API key."),
     logs |-> Message("empty", "")]

\* an except branch that hands back the error as if it were the report
ExceptReturnAsReport(e) ==
    [report |-> Message("report", e), logs |-> Message("error", e)]

\* lines 404-406: the except branch returns the error message twice
ExceptReturn(e) ==
    [report |-> Message("error", e), logs |-> Message("error", e)]

\* lines 375-402: the report and the logs of a finished run
Formatted(q, res) ==
    [report |-> Message("report",
                    [query |-> q,
                     final_report |-> res["final_report"],
                     plan |-> Elements(res["sub_questions"])]),
     logs |-> Message("logs",
                    [query |-> q,
                     n_sub_questions |-> Len(Elements(res["sub_questions"])),
                     validation |-> IF res["validation_passed"]
                                    THEN "PASSED" ELSE "FAILED",
                     iterations |-> IF "iteration_count" \in DOMAIN res
                                    THEN res["iteration_count"] ELSE 0])]

\* one model call; the client used is the global llm at the time of the
\* call; arg is the sub-question asked (Researcher), the query (Planner)
\* or the analysis read (Synthesizer)
Call(stage, arg, ok) ==
    [stage |-> stage, client |-> llm, arg |-> arg, reply |-> "", ok |-> ok]

\* a Researcher call that returned answer
Answered(sub_q, answer) ==
    [Call("researcher", sub_q, TRUE) EXCEPT !.reply = answer]

Init ==
    /\ llm = LlmNone
    /\ nruns = 0
    /\ pc = "idle"
    /\ query = <<>>
    /\ api_key = <<>>
    /\ app = FALSE
    /\ state = NoState
    /\ response = <<>>
    /\ research_data = EmptyDict
    /\ i = 1
    /\ verdict = <<>>
    /\ result = NoResult
    /\ step = 0
    /\ trace = <<>>
    /\ verdicts = <<>>
    /\ judged = ""
    /\ calls = <<>>

\* a call of run_research(q, k) up to the first graph step, or to its
\* early return
RunResearch(q, k) ==
    /\ pc \in {"idle", "returned"}
    /\ nruns < MaxRuns
    /\ nruns' = nruns + 1
    /\ query' = q
    /\ api_key' = k
    /\ response' = <<>>
    /\ research_data' = EmptyDict
    /\ i' = 1
    /\ verdict' = <<>>
    /\ step' = 0
    /\ trace' = <<>>
    /\ verdicts' = <<>>
    /\ judged' = ""
    /\ calls' = <<>>
    /\ IF IsBlank(q) \/ IsBlank(k)
       THEN /\ result' = IF IsBlank(q) THEN AskForQuery ELSE AskForKey
            /\ pc' = "returned"
            /\ app' = FALSE
            /\ state' = NoState
            /\ UNCHANGED llm
       ELSE /\ llm' = ChatGroq(k)
            /\ app' = TRUE
            /\ state' = [f \in {"query"} |-> q]
            /\ pc' = EntryPoint
            /\ result' = NoResult

\* an exception leaves app.invoke and reaches run_research's except branch
Raise(e) ==
    /\ pc' = "returned"
    /\ result' = ExceptReturn(e)

\* the stage at pc may start: the graph has steps left
MayStart(node) ==
    /\ pc = node
    /\ step < RecursionLimit

Enter(node) ==
    /\ step' = step + 1
    /\ trace' = Append(trace, node)

\* invoke gives up when the graph still has a stage to run after
\* RecursionLimit steps
GraphRecursion ==
    /\ pc \in Stages
    /\ pc = "researcher" => i = 1
    /\ step >= RecursionLimit
    /\ Raise("GraphRecursionError")
    /\ UNCHANGED <<judged, llm, nruns, query, api_key, app, state, response,
                   research_data, i, verdict, step, trace, verdicts, calls>>

planner_agent ==
    /\ MayStart("planner")
    /\ Enter("planner")
    /\ UNCHANGED <<judged, llm, nruns, query, api_key, app, research_data, i,
                   verdict, verdicts>>
    /\ IF ~(Reads("planner") \subseteq DOMAIN state)
       THEN Raise("KeyError") /\ UNCHANGED <<state, response, calls>>
       ELSE \/ /\ calls' = Append(calls, Call("planner", state["query"], FALSE))
               /\ Raise("model call failed")
               /\ UNCHANGED <<state, response>>
            \/ \E r \in PlannerResponses :
                 LET sub_questions == ParseSubQuestions(r, state["query"])
                 IN  /\ calls' = Append(calls,
                                     Call("planner", state["query"], TRUE))
                     /\ response' = r
                     /\ IF HasLen(sub_questions)
                        THEN /\ state' = Merge(state,
                                   planner_return(sub_questions))
                             /\ pc' = StaticEdge("planner")
                             /\ UNCHANGED result
                        ELSE /\ Raise("TypeError")
                             /\ UNCHANGED state

\* research_agent, one pass of its for loop: one model call and the store
research_agent_call ==
    /\ pc = "researcher"
    /\ i > 1 \/ step < RecursionLimit
    /\ step' = IF i = 1 THEN step + 1 ELSE step
    /\ trace' = IF i = 1 THEN Append(trace, "researcher") ELSE trace
    /\ UNCHANGED <<judged, llm, nruns, query, api_key, app, state, verdict,
                   verdicts>>
    /\ response' = <<>>
    /\ IF ~(Reads("researcher") \subseteq DOMAIN state)
       THEN Raise("KeyError") /\ UNCHANGED <<research_data, i, calls>>
       ELSE /\ i <= Len(Elements(state["sub_questions"]))
            /\ LET sub_q == Elements(state["sub_questions"])[i]
               IN  \/ /\ calls' = Append(calls,
                                      Call("researcher", sub_q, FALSE))
                      /\ Raise("model call failed")
                      /\ UNCHANGED <<research_data, i>>
                   \/ \E answer \in Answers :
                        /\ calls' = Append(calls, Answered(sub_q, answer))
                        /\ IF Hashable(sub_q)
                           THEN /\ research_data' =
                                       DictSet(research_data, sub_q, answer)
                                /\ i' = i + 1
                                /\ UNCHANGED <<pc, result>>
                           ELSE /\ Raise("TypeError")
                                /\ UNCHANGED <<research_data, i>>

\* research_agent, the end of its for loop: the return and the merge
research_agent_return ==
    /\ pc = "researcher"
    /\ i > 1 \/ step < RecursionLimit
    /\ Reads("researcher") \subseteq DOMAIN state
    /\ i > Len(Elements(state["sub_questions"]))
    /\ step' = IF i = 1 THEN step + 1 ELSE step
    /\ trace' = IF i = 1 THEN Append(trace, "researcher") ELSE trace
    /\ response' = <<>>
    /\ state' = Merge(state, research_return(research_data))
    /\ pc' = StaticEdge("researcher")
    /\ UNCHANGED <<judged, llm, nruns, query, api_key, app, research_data, i,
                   verdict, result, verdicts, calls>>

analysis_agent ==
    /\ MayStart("analyst")
    /\ Enter("analyst")
    /\ UNCHANGED <<judged, llm, nruns, query, api_key, app, response,
                   research_data, i, verdict, verdicts>>
    /\ IF ~(Reads("analyst") \subseteq DOMAIN state)
       THEN Raise("KeyError") /\ UNCHANGED <<state, calls>>
       ELSE \/ /\ calls' = Append(calls, Call("analyst", PyNone, FALSE))
               /\ Raise("model call failed")
               /\ UNCHANGED state
            \/ \E analysis \in Analyses :
                 /\ calls' = Append(calls, Call("analyst", PyNone, TRUE))
                 /\ state' = Merge(state, analysis_return(state, analysis))
                 /\ pc' = StaticEdge("analyst")
                 /\ UNCHANGED result

\* critic_agent; the graph then evaluates the conditional edge (Router)
critic_agent ==
    /\ MayStart("critic")
    /\ Enter("critic")
    /\ UNCHANGED <<llm, nruns, query, api_key, app, response,
                   research_data, i>>
    /\ IF ~(Reads("critic") \subseteq DOMAIN state)
       THEN /\ Raise("KeyError")
            /\ UNCHANGED <<state, verdict, verdicts, judged, calls>>
       ELSE \/ /\ calls' = Append(calls, Call("critic", PyNone, FALSE))
               /\ Raise("model call failed")
               /\ UNCHANGED <<state, verdict, verdicts, judged>>
            \/ \E v \in Verdicts :
                 LET is_valid == IsValid(v)
                 IN  /\ calls' = Append(calls, Call("critic", PyNone, TRUE))
                     /\ verdict' = v
                     /\ verdicts' = Append(verdicts, is_valid)
                     /\ judged' = state["analysis"]
                     /\ state' = Merge(state, critic_return(state, is_valid))
                     /\ pc' = "router"
                     /\ UNCHANGED result

\* the conditional edge after critic: route_after_validation picks the
\* next stage and writes nothing
Router ==
    /\ pc = "router"
    /\ verdict' = <<>>
    /\ UNCHANGED <<judged, llm, nruns, query, api_key, app, state, response,
                   research_data, i, step, trace, verdicts, calls>>
    /\ IF ~("validation_passed" \in DOMAIN state
            /\ (state["validation_passed"]
                \/ "iteration_count" \in DOMAIN state))
       THEN Raise("KeyError")
       ELSE /\ pc' = ConditionalEdge(route_after_validation(state))
            /\ UNCHANGED result

synthesis_agent ==
    /\ MayStart("synthesizer")
    /\ Enter("synthesizer")
    /\ UNCHANGED <<judged, llm, nruns, query, api_key, app, response,
                   research_data, i, verdict, verdicts>>
    /\ IF ~(Reads("synthesizer") \subseteq DOMAIN state)
       THEN Raise("KeyError") /\ UNCHANGED <<state, calls>>
       ELSE \/ /\ calls' = Append(calls,
                              Call("synthesizer", state["analysis"], FALSE))
               /\ Raise("model call failed")
               /\ UNCHANGED state
            \/ \E final_report \in Reports :
                 /\ calls' = Append(calls,
                              Call("synthesizer", state["analysis"], TRUE))
                 /\ state' = Merge(state, synthesis_return(final_report))
                 /\ pc' = StaticEdge("synthesizer")
                 /\ UNCHANGED result

\* lines 372-402: invoke has returned the final state; format and return
RunReturn ==
    /\ pc = "END"
    /\ pc' = "returned"
    /\ result' =
         IF {"final_report", "sub_questions", "validation_passed"}
                \subseteq DOMAIN state
         THEN Formatted(query, state)
         ELSE ExceptReturn("KeyError")
    /\ UNCHANGED <<judged, llm, nruns, query, api_key, app, state, response,
                   research_data, i, verdict, step, trace, verdicts, calls>>

Next ==
    \/ \E q \in Queries, k \in ApiKeys : RunResearch(q, k)
    \/ planner_agent
    \/ research_agent_call
    \/ research_agent_return
    \/ analysis_agent
    \/ critic_agent
    \/ Router
    \/ synthesis_agent
    \/ GraphRecursion
    \/ RunReturn

Spec == Init /\ [][Next]_vars

\* --------------------------------------- route_after_validation on its own
\* The Router applied to states whose validation_passed and iteration_count
\* are drawn from all their values, whatever the other fields hold.

MaxIterationCount == 4

RouterInit ==
    /\ llm = ChatGroq(<<"g", "1">>)
    /\ nruns = 1
    /\ pc = "router"
    /\ query = <<"e", "v">>
    /\ api_key = <<"g", "1">>
    /\ app = TRUE
    /\ \E passed \in BOOLEAN, count \in 0..MaxIterationCount,
          analysis \in Analyses :
         /\ state = [query |-> <<"e", "v">>,
                     sub_questions |-> Fallback(<<"e", "v">>),
                     research_data |-> EmptyDict,
                     analysis |-> analysis,
                     validation_passed |-> passed,
                     iteration_count |-> count]
         /\ verdicts = <<passed>>
         /\ judged = analysis
    /\ response = <<>>
    /\ research_data = EmptyDict
    /\ i = 1
    /\ verdict \in Verdicts
    /\ result = NoResult
    /\ step = 4
    /\ trace = <<"planner", "researcher", "analyst", "critic">>
    /\ calls = <<>>

RouterSpec == RouterInit /\ [][Router]_vars

\* ------------------------------------------------------------ the claims

\* how many times a stage has executed in the current run
Count(stage) == Cardinality({n \in 1..Len(trace) : trace[n] = stage})

NoCallFailed == \A n \in 1..Len(calls) : calls[n].ok

\* the verdict of the k-th Critic execution is the one at trace position n
CriticIndex(n) == Cardinality({m \in 1..n : trace[m] = "critic"})

AllWhitespace(s) == \A n \in 1..Len(s) : s[n] \in Whitespace

\* C1: whatever the Critic answers, a run with no failing model call ends
\* with the report that Synthesizer wrote and with no error; once the Critic
\* has failed validation three times the retries are exhausted and the run
\* goes on to Synthesizer with validation_passed = false.
C1_RunCompletesWithinCap ==
    /\ (pc = "returned" /\ Count("critic") >= 1 /\ NoCallFailed)
          => /\ result.report.kind = "report"
             /\ "final_report" \in DOMAIN state
    /\ (/\ Len(verdicts) >= 3
        /\ \A n \in 1..3 : ~verdicts[n]
        /\ pc \notin {"critic", "router"})
          => /\ pc \in {"synthesizer", "END", "returned"}
             /\ Len(verdicts) = 3
             /\ ~state["validation_passed"]

\* C2: Planner, Researcher and Synthesizer execute at most once (exactly
\* once in a run that reaches the terminal state), Analyst and Critic at
\* most three times each.
C2_StageExecutionsBounded ==
    /\ Count("planner") <= 1
    /\ Count("researcher") <= 1
    /\ Count("analyst") <= 3
    /\ Count("critic") <= 3
    /\ Count("synthesizer") <= 1
    /\ pc = "END" => /\ Count("planner") = 1
                     /\ Count("researcher") = 1
                     /\ Count("synthesizer") = 1

\* C3: when the Critic's model response is "INVALID", in any letter case
\* and with or without surrounding whitespace, validation_passed is false.
C3_InvalidFailsValidation ==
    (pc = "router"
     /\ Upper(Strip(verdict)) = <<"I", "N", "V", "A", "L", "I", "D">>)
        => ~state["validation_passed"]

\* C4: the Router sends validation_passed = true to Synthesizer for every
\* iteration_count, validation_passed = false to Analyst when
\* iteration_count < 2 and to Synthesizer when iteration_count >= 2, and
\* changes no state field.
C4_RouterCases ==
    [][pc = "router" =>
          /\ state' = state
          /\ state["validation_passed"] => pc' = "synthesizer"
          /\ (~state["validation_passed"] /\ state["iteration_count"] < 2)
                => pc' = "analyst"
          /\ (~state["validation_passed"] /\ state["iteration_count"] >= 2)
                => pc' = "synthesizer"]_vars

\* C4's case: the Router has sent a failed validation on to Synthesizer
\* because iteration_count had reached the cap.
C4_Witness ==
    /\ pc = "synthesizer"
    /\ ~state["validation_passed"]
    /\ state["iteration_count"] >= 2

\* C5: when the first Critic execution passes, Analyst and Critic execute
\* exactly once, the stage after Critic is Synthesizer, validation_passed
\* stays true, and the run ends with final_report written (a run that a
\* failing model call aborts ends with the error message instead).
C5_FirstPassGoesToSynthesizer ==
    (Len(verdicts) >= 1 /\ verdicts[1]) =>
        /\ Count("analyst") = 1
        /\ Count("critic") = 1
        /\ pc \in {"router", "synthesizer", "END", "returned"}
        /\ state["validation_passed"]
        /\ pc = "END" => "final_report" \in DOMAIN state
        /\ (pc = "returned" /\ NoCallFailed) =>
              /\ result.report.kind = "report"
              /\ result.logs.body.validation = "PASSED"
              /\ trace = <<"planner", "researcher", "analyst", "critic",
                           "synthesizer">>

C5_Witness ==
    /\ Len(verdicts) >= 1
    /\ verdicts[1]
    /\ pc = "returned"
    /\ result.report.kind = "report"

\* C6: the stages executed by a run follow the graph's edges: Planner first,
\* then Researcher, then Analyst; Critic after every Analyst; after every
\* Critic the stage the Router names for that Critic's verdict; nothing
\* after Synthesizer, whose completion is the terminal state; Planner and
\* Researcher never again.
C6_StagesFollowEdges ==
    /\ trace # <<>> => trace[1] = "planner"
    /\ pc \in Stages \cup {"router", "END"} =>
          \/ trace = <<>> /\ pc = "planner"
          \/ trace # <<>> /\ pc = "router" /\ trace[Len(trace)] = "critic"
          \/ /\ trace # <<>>
             /\ pc # "router"
             /\ \/ trace[Len(trace)] = pc /\ pc = "researcher"
                \/ /\ trace[Len(trace)] \in {"planner", "researcher",
                                             "analyst", "synthesizer"}
                   /\ pc = CASE trace[Len(trace)] = "planner" -> "researcher"
                             [] trace[Len(trace)] = "researcher" -> "analyst"
                             [] trace[Len(trace)] = "analyst" -> "critic"
                             [] trace[Len(trace)] = "synthesizer" -> "END"
                \/ /\ trace[Len(trace)] = "critic"
                   /\ pc \in {"analyst", "synthesizer"}
    /\ \A n \in 1..(Len(trace) - 1) :
          /\ trace[n] = "planner" => trace[n + 1] = "researcher"
          /\ trace[n] = "researcher" => trace[n + 1] = "analyst"
          /\ trace[n] = "analyst" => trace[n + 1] = "critic"
          /\ trace[n] = "critic" =>
                trace[n + 1] =
                    IF verdicts[CriticIndex(n)] THEN "synthesizer"
                    ELSE IF state["iteration_count"] < 2 THEN "analyst"
                    ELSE "synthesizer"
          /\ trace[n] # "synthesizer"
          /\ trace[n + 1] \notin {"planner", "researcher"} \/ n = 1

\* C6's case: a run that took the Critic -> Analyst edge and reached the
\* terminal state.
C6_Witness ==
    /\ pc = "END"
    /\ Count("analyst") = 2
    /\ trace[Len(trace)] = "synthesizer"

\* C7: a failing model call is not retried and ends the run: it is the
\* run's last call, its stage is the last stage executed, and run_research
\* has returned the error message, twice, with no final_report and no
\* research plan in it.
C7_FailedCallAbortsRun ==
    \A n \in 1..Len(calls) :
        ~calls[n].ok =>
            /\ n = Len(calls)
            /\ trace[Len(trace)] = calls[n].stage
            /\ pc = "returned"
            /\ result.report.kind = "error"
            /\ result.report.body = "model call failed"
            /\ result.logs.kind = "error"
            /\ result.logs.body = result.report.body
            /\ "final_report" \notin DOMAIN state

\* C7's case: the Critic's model call failed after three earlier stages.
C7_Witness ==
    /\ calls # <<>>
    /\ ~calls[Len(calls)].ok
    /\ calls[Len(calls)].stage = "critic"
    /\ pc = "returned"

\* C8: a call of run_research whose query or credential is empty or all
\* whitespace returns the configuration message at once: the model client
\* is left as it was, no graph is built, no state is created, no stage
\* executes and no model call is made.
C8_BlankInputRejected ==
    [][(/\ nruns' = nruns + 1
        /\ AllWhitespace(query') \/ AllWhitespace(api_key'))
          => /\ pc' = "returned"
             /\ result'.report.kind = "warning"
             /\ result'.logs.kind = "empty"
             /\ llm' = llm
             /\ app' = FALSE
             /\ DOMAIN state' = {}
             /\ trace' = <<>>
             /\ calls' = <<>>]_vars

\* C8's case: a second call rejected while the client of the first run
\* is still set.
C8_Witness ==
    /\ nruns = 2
    /\ pc = "returned"
    /\ result.report.kind = "warning"
    /\ AllWhitespace(query) \/ AllWhitespace(api_key)
    /\ llm.set

\* C9: after Planner completes, sub_questions has at least one element,
\* and it is the five-entry fallback list when the text handed to the JSON
\* parser is not valid JSON.
C9_SubQuestionsNonEmpty ==
    /\ "sub_questions" \in DOMAIN state =>
          Len(Elements(state["sub_questions"])) >= 1
    /\ (pc = "researcher" /\ i = 1 /\ trace = <<"planner">>
        /\ ~JsonLoads(Strip(FencedPayload(response))).ok)
          => /\ state["sub_questions"] = Fallback(query)
             /\ Len(Elements(state["sub_questions"])) = 5

\* C10: once Researcher has completed, the keys of research_data are
\* exactly the elements of sub_questions.
C10_KeysAreSubQuestions ==
    "research_data" \in DOMAIN state =>
        DictKeys(state["research_data"]) =
            {Elements(state["sub_questions"])[n] :
                n \in 1..Len(Elements(state["sub_questions"]))}

\* C10's case: Researcher has completed on several sub-questions and a
\* later stage has run.
C10_Witness ==
    /\ "research_data" \in DOMAIN state
    /\ Len(Elements(state["sub_questions"])) >= 2
    /\ pc = "critic"

\* the five letters v, a, l, i, d occur in s next to each other, each in
\* either case
HoldsValidAnyCase(s) ==
    \E n \in 1..(Len(s) - 4) :
        /\ s[n] \in {"V", "v"}
        /\ s[n + 1] \in {"A", "a"}
        /\ s[n + 2] \in {"L", "l"}
        /\ s[n + 3] \in {"I", "i"}
        /\ s[n + 4] \in {"D", "d"}

Changed(f) ==
    \/ f \in DOMAIN state' /\ f \notin DOMAIN state
    \/ f \in DOMAIN state /\ f \notin DOMAIN state'
    \/ f \in DOMAIN state /\ f \in DOMAIN state' /\ state'[f] # state[f]

\* the step is an execution (or the last part of one) of the stage
StepOf(stage) == trace' # <<>> /\ trace'[Len(trace')] = stage /\ pc = stage

CountIn(tr, stage) == Cardinality({n \in 1..Len(tr) : tr[n] = stage})

\* C13: within a run no field is ever removed and query never changes;
\* sub_questions (and iteration_count) change only in a Planner step,
\* research_data only in a Researcher step and final_report only in a
\* Synthesizer step, each only from unset to set and each of these stages
\* executing at most once; analysis changes only in an Analyst step and
\* validation_passed only in a Critic step.
C13_StagesWriteOwnFields ==
    [][nruns' = nruns =>
          /\ DOMAIN state \subseteq DOMAIN state'
          /\ ~Changed("query")
          /\ Changed("sub_questions") =>
                StepOf("planner") /\ "sub_questions" \notin DOMAIN state
          /\ Changed("iteration_count") =>
                StepOf("planner") /\ "iteration_count" \notin DOMAIN state
          /\ Changed("research_data") =>
                StepOf("researcher") /\ "research_data" \notin DOMAIN state
          /\ Changed("final_report") =>
                StepOf("synthesizer") /\ "final_report" \notin DOMAIN state
          /\ Changed("analysis") => StepOf("analyst")
          /\ Changed("validation_passed") => StepOf("critic")
          /\ CountIn(trace', "planner") <= 1
          /\ CountIn(trace', "researcher") <= 1
          /\ CountIn(trace', "synthesizer") <= 1]_vars

\* C13's case: Analyst has written analysis a second time, over a state
\* that holds the first Critic's validation_passed, and the other fields
\* are as Planner and Researcher left them.
C13_Witness ==
    /\ pc = "critic"
    /\ Count("analyst") = 2
    /\ ~state["validation_passed"]
    /\ DOMAIN state = {"query", "sub_questions", "iteration_count",
                       "research_data", "analysis", "validation_passed"}

\* C14: whatever text the model returns to the Planner, the Planner
\* completes without raising and the run does not fail on account of that
\* text: a run that ends in an error before Analyst has executed has had a
\* failing model call.
C14_PlannerRecoversLocally ==
    /\ (calls # <<>> /\ calls[1].ok /\ trace = <<"planner">>)
          => /\ pc = "researcher"
             /\ "sub_questions" \in DOMAIN state
    /\ (pc = "returned" /\ result.report.kind = "error"
        /\ Count("analyst") = 0)
          => ~NoCallFailed

\* ------------------------------------------------- two runs in flight
\* run_research called a second time (another request) while the run
\* modelled above is in flight.  The other call shares nothing with this
\* run but the module's global llm, and its only write to it is
\* initialize_llm (line 359); its stages read llm as this run's do.

\* the other call, made with a different credential k, passes both checks
\* and executes initialize_llm(k)
OtherRunInitializesLlm(k) ==
    /\ pc \in Stages \cup {"router", "END"}
    /\ ~IsBlank(k)
    /\ k # api_key
    /\ llm = ChatGroq(api_key)
    /\ llm' = ChatGroq(k)
    /\ UNCHANGED <<judged, nruns, pc, query, api_key, app, state, response,
                   research_data, i, verdict, result, step, trace,
                   verdicts, calls>>

\* this run has just entered the graph
ConcInit ==
    /\ llm = ChatGroq(<<"g", "1">>)
    /\ nruns = 1
    /\ pc = EntryPoint
    /\ query = <<"e", "v">>
    /\ api_key = <<"g", "1">>
    /\ app = TRUE
    /\ state = [f \in {"query"} |-> <<"e", "v">>]
    /\ response = <<>>
    /\ research_data = EmptyDict
    /\ i = 1
    /\ verdict = <<>>
    /\ result = NoResult
    /\ step = 0
    /\ trace = <<>>
    /\ verdicts = <<>>
    /\ judged = ""
    /\ calls = <<>>

ConcNext ==
    \/ planner_agent
    \/ research_agent_call
    \/ research_agent_return
    \/ analysis_agent
    \/ critic_agent
    \/ Router
    \/ synthesis_agent
    \/ GraphRecursion
    \/ RunReturn
    \/ \E k \in ApiKeys : OtherRunInitializesLlm(k)

ConcSpec == ConcInit /\ [][ConcNext]_vars

\* C15: with two runs in flight under different credentials, every model
\* call of a run goes through the client built from that run's own
\* credential: no step of the other run has changed the client it reads.
C15_RunsUseOwnClient ==
    \A n \in 1..Len(calls) : calls[n].client = ChatGroq(api_key)

\* C16: a run starts from a state that holds only query, and whenever a
\* stage or the Router is about to execute, the fields it reads have been
\* written by a stage this run has already executed: sub_questions (by
\* Planner) before Researcher, research_data (by Researcher) before
\* Analyst, analysis (by Analyst) before Critic and Synthesizer,
\* validation_passed (by Critic) and iteration_count (by Planner) before
\* the Router; no read ever fails on a missing field.
C16_ReadsFollowWrites ==
    /\ (pc = "planner" /\ trace = <<>>) => DOMAIN state = {"query"}
    /\ pc = "researcher" => {"query", "sub_questions"} \subseteq DOMAIN state
    /\ pc = "analyst" => {"query", "research_data"} \subseteq DOMAIN state
    /\ pc \in {"critic", "synthesizer"} =>
          {"query", "analysis"} \subseteq DOMAIN state
    /\ pc = "router" =>
          {"validation_passed", "iteration_count"} \subseteq DOMAIN state
    /\ "sub_questions" \in DOMAIN state => Count("planner") >= 1
    /\ "iteration_count" \in DOMAIN state => Count("planner") >= 1
    /\ "research_data" \in DOMAIN state => Count("researcher") >= 1
    /\ "analysis" \in DOMAIN state => Count("analyst") >= 1
    /\ "validation_passed" \in DOMAIN state => Count("critic") >= 1
    /\ result.report.kind = "error" => result.report.body # "KeyError"

\* C16's case: in a second run, the Router is about to read the verdict
\* and the counter that this run's Critic and Planner wrote.
C16_Witness ==
    /\ nruns = 2
    /\ pc = "router"
    /\ ~state["validation_passed"]
    /\ state["iteration_count"] = 0
    /\ Count("critic") = 1

IsResearcherCall(c) == c.stage = "researcher"

ResearcherCalls == SelectSeq(calls, IsResearcherCall)

\* the value a dict holds under key
ValueAt(d, key) == d[CHOOSE n \in 1..Len(d) : d[n].k = key].v

\* the last position up to m at which sub-question number n occurs
LastOccurrence(subs, n, m) ==
    CHOOSE p \in n..m :
        subs[p] = subs[n] /\ \A r \in (p + 1)..m : subs[r] # subs[n]

\* C17: Researcher's model calls are, in order, one per element of
\* sub_questions (the n-th call asks the n-th sub-question), and each
\* answer is stored under its sub-question: while the loop runs and after
\* Researcher completes, the value under a sub-question is the answer to
\* its last occurrence so far, so that of two identical sub-questions the
\* later answer is the one kept.
C17_OneCallPerSubQuestion ==
    "sub_questions" \in DOMAIN state =>
        LET subs == Elements(state["sub_questions"])
            rc == ResearcherCalls
            done == Len(SelectSeq(rc, LAMBDA c : c.ok))
            data == IF "research_data" \in DOMAIN state
                    THEN state["research_data"] ELSE research_data
        IN  /\ Len(rc) <= Len(subs)
            /\ \A n \in 1..Len(rc) : rc[n].arg = subs[n]
            /\ \A n \in 1..Len(rc) : n < Len(rc) => rc[n].ok
            /\ pc = "researcher" => Len(rc) = i - 1 /\ done = i - 1
            /\ "research_data" \in DOMAIN state => done = Len(subs)
            /\ \A n \in 1..done :
                  Hashable(subs[n]) =>
                     /\ subs[n] \in DictKeys(data)
                     /\ ValueAt(data, subs[n]) =
                           rc[LastOccurrence(subs, n, done)].reply

\* C17's case: two identical sub-questions got different answers and
\* research_data holds the second.
C17_Witness ==
    /\ "research_data" \in DOMAIN state
    /\ Len(Elements(state["sub_questions"])) = 2
    /\ Elements(state["sub_questions"])[1] =
          Elements(state["sub_questions"])[2]
    /\ Len(ResearcherCalls) = 2
    /\ ResearcherCalls[1].reply # ResearcherCalls[2].reply
    /\ Len(state["research_data"]) = 1
    /\ state["research_data"][1].v = ResearcherCalls[2].reply

\* C18: when Synthesizer executes, the stage before it is a Critic
\* execution, with no Analyst in between, and the analysis Synthesizer reads
\* is the one that Critic execution was given; the validation that
\* run_research reports is that last Critic execution's verdict.
C18_SynthesizerReadsJudgedAnalysis ==
    /\ (trace # <<>> /\ trace[Len(trace)] = "synthesizer") =>
          /\ Len(trace) >= 2
          /\ trace[Len(trace) - 1] = "critic"
          /\ calls[Len(calls)].stage = "synthesizer"
          /\ calls[Len(calls)].arg = judged
          /\ state["analysis"] = judged
    /\ result.logs.kind = "logs" =>
          /\ verdicts # <<>>
          /\ result.logs.body.validation =
                IF verdicts[Len(verdicts)] THEN "PASSED" ELSE "FAILED"

\* C18's case: a finished run whose second analysis differs from the
\* first and whose last Critic execution, the third, passed.
C18_Witness ==
    /\ pc = "returned"
    /\ result.logs.kind = "logs"
    /\ Len(verdicts) = 3
    /\ verdicts[3]
    /\ judged = "analysis2"
    /\ calls[Len(calls)].arg = "analysis2"

====
